---- MODULE Spec2Model ----
(***************************************************************************)
(* State-machine model of the sprite layer of the platformer               *)
(* (src/sprites.py): the Player's physics, jump gating and animation, and   *)
(* the self-removing Slime and Cloud sprites.                               *)
(*                                                                         *)
(* Numbers.  pygame's Vector2 holds doubles; a coordinate of pos, vel and   *)
(* acc is an IEEE 754 binary64 number, and its sums and products are        *)
(* rounded as the hardware rounds them.  Rect coordinates are whole pixels, *)
(* as in pygame.Rect.                                                       *)
(***************************************************************************)
EXTENDS Integers, Sequences, FiniteSets, TLC

VARIABLES pos, vel, acc, rect, jumping, running, current_frame, last_update,
          image, now, platforms, bases, ticks, jumps, coast, op,
          sprites, all_sprites, enemies, clouds, assets, error

pvars == <<pos, vel, acc, rect, jumping, running, current_frame, last_update, image,
           assets, error>>
vars == <<pos, vel, acc, rect, jumping, running, current_frame, last_update,
          image, now, platforms, bases, ticks, jumps, coast, op,
          sprites, all_sprites, enemies, clouds, assets, error>>

evars == <<sprites, all_sprites, enemies, clouds>>

-----------------------------------------------------------------------------
(* Doubles.  pygame's Vector2 holds IEEE 754 binary64 numbers.  The record  *)
(* [s, h, l, e] is the double s * (h * 2^25 + l) * 2^e: s is the sign       *)
(* (-1, 0 or 1), h the upper 28 and l the lower 25 bits of the 53-bit       *)
(* significand, so 2^27 <= h < 2^28 and 0 <= l < 2^25; zero is [0, 0, 0, 0]. *)
(* The form is unique, so = compares values.  Every operation is rounded to *)
(* the nearest double, ties to even, as the hardware does.  Not modelled:   *)
(* the sign of zero, subnormals, infinities and NaN.                        *)

\* 2^28 and 2^25: the sizes of the limbs h and l
B28 == 268435456

B25 == 33554432

\* 2^14: the limb of the multiplication
B14 == 16384

Zero == [s |-> 0, h |-> 0, l |-> 0, e |-> 0]

\* the number of bits of n >= 0
RECURSIVE BitLen(_)
BitLen(n) ==
    IF n >= B28 THEN 28 + BitLen(n \div B28)
    ELSE IF n >= B28 \div 2 THEN 28
    ELSE IF n = 0 THEN 0
    ELSE 1 + BitLen(n \div 2)

\* the number of bits of h * 2^28 + l
Width(h, l) == IF h = 0 THEN BitLen(l) ELSE 28 + BitLen(h)

\* n with its lowest bit set if bits were lost below it (the sticky bit)
Sticky(n, lost) == IF lost /\ n % 2 = 0 THEN n + 1 ELSE n

\* (h * 2^28 + l) shifted right by k bits, what falls off kept as a sticky bit
ShiftRight(h, l, k) ==
    IF k = 0 THEN [h |-> h, l |-> l]
    ELSE IF k < 28
    THEN [h |-> h \div 2^k,
          l |-> Sticky((h % 2^k) * 2^(28 - k) + (l \div 2^k), l % 2^k # 0)]
    ELSE IF k < 58
    THEN [h |-> 0, l |-> Sticky(h \div 2^(k - 28), h % 2^(k - 28) # 0 \/ l # 0)]
    ELSE [h |-> 0, l |-> Sticky(0, h # 0 \/ l # 0)]

\* (h * 2^28 + l) shifted left by k bits, for a result below 2^56
ShiftLeft(h, l, k) ==
    IF k < 28
    THEN [h |-> h * 2^k + (l \div 2^(28 - k)), l |-> (l % 2^(28 - k)) * 2^k]
    ELSE [h |-> l * 2^(k - 28), l |-> 0]

\* (h * 2^28 + l), a number of n bits, brought to 56 bits
Normalize(h, l, n) ==
    IF n > 56 THEN ShiftRight(h, l, n - 56) ELSE ShiftLeft(h, l, 56 - n)

\* q rounded by the three bits grs that follow it: to nearest, ties to even
Nearest(q, grs) == IF grs > 4 \/ (grs = 4 /\ q % 2 = 1) THEN q + 1 ELSE q

\* the double of the limbs h and l <= 2^25: a carry out of l goes into h,
\* one out of h into the exponent
Carried(s, h, l, e) ==
    IF h + (l \div B25) = B28
    THEN [s |-> s, h |-> B28 \div 2, l |-> 0, e |-> e + 1]
    ELSE [s |-> s, h |-> h + (l \div B25), l |-> l % B25, e |-> e]

\* the 56-bit number m (limbs of 28 bits) rounded to its upper 53 bits
Rounded(s, m, e) == Carried(s, m.h, Nearest(m.l \div 8, m.l % 8), e)

\* The double nearest to s * (h * 2^28 + l) * 2^e, for h < 2^30 and a lowest
\* bit that may be a sticky bit: the value is brought to 56 bits, of which
\* the lowest three decide the rounding of the upper 53.
Round(s, h, l, e) ==
    IF h = 0 /\ l = 0 THEN Zero
    ELSE Rounded(s, Normalize(h, l, Width(h, l)), e + Width(h, l) - 53)

\* the quotient n / d of two naturals by long division, bit by bit, until it
\* has 56 bits; a remainder left is the sticky bit
RECURSIVE Quotient(_, _, _, _, _)
Quotient(h, l, r, d, e) ==
    IF h >= B28 \div 2
    THEN [h |-> h, l |-> Sticky(l, r # 0), e |-> e]
    ELSE IF 2 * r >= d
    THEN Quotient(2 * h + ((2 * l + 1) \div B28), (2 * l + 1) % B28, 2 * r - d, d, e - 1)
    ELSE Quotient(2 * h + ((2 * l) \div B28), (2 * l) % B28, 2 * r, d, e - 1)

\* the double nearest to s * (m.h * 2^28 + m.l) * 2^e
RoundLimbs(s, m, e) == Round(s, m.h, m.l, e)

\* the double nearest to s * q, for a quotient q
RoundQuotient(s, q) == Round(s, q.h, q.l, q.e)

\* the double nearest to n / d, for integers n and d > 0: what Python makes
\* of a decimal literal such as 0.8 = 8 / 10
Ratio(n, d) ==
    IF n = 0 THEN Zero
    ELSE IF n < 0 THEN RoundQuotient(-1, Quotient(0, (-n) \div d, (-n) % d, d, 0))
    ELSE RoundQuotient(1, Quotient(0, n \div d, n % d, d, 0))

\* a whole number n as a double, for |n| < 2^31
Px(n) == Round(IF n < 0 THEN -1 ELSE 1, 0, IF n < 0 THEN -n ELSE n, 0)

Neg(a) == [a EXCEPT !.s = -a.s]

\* abs(a)
Magnitude(a) == [a EXCEPT !.s = a.s * a.s]

\* abs(a) < abs(b), for a and b other than zero
SmallerMagnitude(a, b) ==
    \/ a.e < b.e
    \/ a.e = b.e /\ a.h < b.h
    \/ a.e = b.e /\ a.h = b.h /\ a.l < b.l

\* a < b
Less(a, b) ==
    IF a.s # b.s THEN a.s < b.s
    ELSE IF a.s = 1 THEN SmallerMagnitude(a, b)
    ELSE IF a.s = -1 THEN SmallerMagnitude(b, a)
    ELSE FALSE

Negative(a) == a.s < 0

Positive(a) == a.s > 0

\* the significand of big (with three extra bits: guard, round, sticky) plus
\* or minus m, the significand of the smaller operand aligned to it
Significands(big, m, add) ==
    IF add
    THEN [h |-> big.h + m.h + ((big.l * 8 + m.l) \div B28),
          l |-> (big.l * 8 + m.l) % B28]
    ELSE IF big.l * 8 < m.l
    THEN [h |-> big.h - m.h - 1, l |-> big.l * 8 - m.l + B28]
    ELSE [h |-> big.h - m.h, l |-> big.l * 8 - m.l]

\* big + small, for abs(small) <= abs(big) and neither zero
PlusAligned(big, small) ==
    RoundLimbs(big.s,
               Significands(big, ShiftRight(small.h, small.l * 8, big.e - small.e),
                            big.s = small.s),
               big.e - 3)

\* a + b: the smaller operand is aligned to the larger, the significands are
\* added or subtracted and the result is rounded
Plus(a, b) ==
    IF a.s = 0 THEN b
    ELSE IF b.s = 0 THEN a
    ELSE IF SmallerMagnitude(a, b) THEN PlusAligned(b, a)
    ELSE PlusAligned(a, b)

\* the four 14-bit limbs of the significand times 8, lowest first
Limbs(a) ==
    << (a.l * 8) % B14, (a.l * 8) \div B14, a.h % B14, a.h \div B14 >>

\* a is a power of two
PowerOfTwo(a) == a.h = B28 \div 2 /\ a.l = 0

\* limb i of x times the limb of y that meets it in column k
Term(x, y, i, k) == IF k - i >= 1 /\ k - i <= 4 THEN x[i] * y[k - i] ELSE 0

\* column k = 2 .. 8 of the product of the limbs x and y, with the carry of
\* the column below
RECURSIVE Column(_, _, _)
Column(x, y, k) ==
    Term(x, y, 1, k) + Term(x, y, 2, k) + Term(x, y, 3, k) + Term(x, y, 4, k)
        + (IF k = 2 THEN 0 ELSE Column(x, y, k - 1) \div B14)

\* the 112-bit product of the limbs x and y: its upper 56 bits rounded, the
\* lower 56 a sticky bit
Product(s, x, y, e) ==
    Round(s, Column(x, y, 8),
          Sticky((Column(x, y, 7) % B14) * B14 + (Column(x, y, 6) % B14),
                 \E k \in 2 .. 5 : Column(x, y, k) % B14 # 0),
          e)

\* a * b: a power of two only moves the exponent; otherwise the exact
\* product of the significands by columns of 14-bit limbs
Times(a, b) ==
    IF a.s = 0 \/ b.s = 0 THEN Zero
    ELSE IF PowerOfTwo(a) THEN [b EXCEPT !.s = a.s * b.s, !.e = a.e + b.e + 52]
    ELSE IF PowerOfTwo(b) THEN [a EXCEPT !.s = a.s * b.s, !.e = a.e + b.e + 52]
    ELSE Product(a.s * b.s, Limbs(a), Limbs(b), a.e + b.e + 50)

\* int(v): the fraction cut off, toward zero, as pygame.Rect does on
\* assignment; for coordinates below 2^30
ToPixel(v) ==
    IF v.s = 0 \/ v.e <= -53 THEN 0
    ELSE IF v.e <= -25 THEN v.s * (v.h \div 2^(-v.e - 25))
    ELSE v.s * (v.h * 2^(25 + v.e) + (v.l \div 2^(-v.e)))

-----------------------------------------------------------------------------
(* The configuration (module settings). *)

HEIGHT == 600

WIDTH == 100

BASE_HEIGHT == 64

PLAYER_GRAV == Ratio(8, 10)

PLAYER_ACC == Ratio(5, 10)

PLAYER_FRICTION == Ratio(12, 100)

PLAYER_JUMP_VEL == Px(20)

JUMP_THRESHOLD == Px(3)

PLAYER_RUN_FREQ == 60

PLAYER_IDLE_FREQ == 100

CLAMP_OFFSET == 50

PROBE_SHIFT == 2

\* the literals of update(): 0.1 of line 301 and 0.5 of line 305
DEADZONE == Ratio(1, 10)

HALF == Ratio(1, 2)

(* Bounds of the model: ticks of Spec, SpecJump, SpecWalk, and the held and  *)
(* the coasting ticks of SpecFriction.                                      *)
MaxTicks == 2

MaxJumpTicks == 6

MaxWalkTicks == 9

MaxHoldTicks == 8

MaxCoastTicks == 32

\* ticks without input within which friction must have stopped the Player
CoastBound == 30

\* ticks of SpecPhysics
MaxPhysTicks == 3

\* ticks of SpecAssets
MaxAssetTicks == 3

\* ticks of SpecBuild, and the Platforms built in one of its sessions
MaxBuildTicks == 2

MaxPlatforms == 1

-----------------------------------------------------------------------------
(* Frames loaded by load_images: only their sizes matter to the rect.  The  *)
(* variable assets holds the lists load_images() built from the directory   *)
(* listings: assets.run is run_frames_r (and _l), assets.idle is            *)
(* standing_frames_r (and _l).                                              *)

standing_frames == << [w |-> 60, h |-> 80], [w |-> 62, h |-> 82] >>

run_frames == << [w |-> 58, h |-> 78], [w |-> 64, h |-> 80], [w |-> 60, h |-> 76] >>

\* the frames of the shipped image directories
DefaultAssets == [run |-> run_frames, idle |-> standing_frames]

\* image directories of other sizes: an empty run directory, an empty idle
\* directory, and a run sequence shorter than the idle one
AssetSets ==
    { DefaultAssets,
      [run |-> << >>, idle |-> standing_frames],
      [run |-> run_frames, idle |-> << >>],
      [run |-> << [w |-> 58, h |-> 78] >>,
       idle |-> << [w |-> 60, h |-> 80], [w |-> 62, h |-> 82], [w |-> 60, h |-> 84] >>] }

\* an exception raised in place of a value
Raise(exc) == [raised |-> exc]

Raised(v) == "raised" \in DOMAIN v

\* the list an image is taken from
Frames(img) == IF img.seq = "run" THEN assets.run ELSE assets.idle

\* list[idx] raises IndexError: the index is outside -len .. len - 1
IndexRaises(img) ==
    img.idx >= Len(Frames(img)) \/ img.idx < -Len(Frames(img))

\* the size of self.run_frames_r[idx] or self.standing_frames_r[idx], for
\* idx >= 0
FrameSize(img) ==
    IF IndexRaises(img) THEN Raise("IndexError") ELSE Frames(img)[img.idx + 1]

\* image.get_rect(): a rect of the image's size at the origin.
get_rect(img) ==
    IF Raised(FrameSize(img)) THEN FrameSize(img)
    ELSE [x |-> 0, y |-> 0, w |-> FrameSize(img).w, h |-> FrameSize(img).h]

Bottom(r) == r.y + r.h

Right(r) == r.x + r.w

\* rect.bottom = b
SetBottom(r, b) == [r EXCEPT !.y = b - r.h]

\* rect.center = (cx, cy)
SetCenter(r, cx, cy) == [r EXCEPT !.x = cx - (r.w \div 2), !.y = cy - (r.h \div 2)]

\* rect.midbottom = p, with p a float vector
SetMidbottom(r, p) ==
    [r EXCEPT !.x = ToPixel(p.x) - (r.w \div 2), !.y = ToPixel(p.y) - r.h]

\* pygame.Rect.colliderect for rects of positive size
colliderect(a, b) ==
    /\ a.x < b.x + b.w
    /\ b.x < a.x + a.w
    /\ a.y < b.y + b.h
    /\ b.y < a.y + a.h

\* pygame.sprite.spritecollide(sprite, group, False) is non-empty
spritecollide(r, group) == \E t \in group : colliderect(r, t)

-----------------------------------------------------------------------------
(* The Player as a record of its fields. *)

Player ==
    [pos |-> pos, vel |-> vel, acc |-> acc, rect |-> rect, jumping |-> jumping,
     running |-> running, current_frame |-> current_frame,
     last_update |-> last_update, image |-> image]

\* Player(game); with no idle frame loaded standing_frames_r[0] of line 160
\* raises IndexError
Player_init ==
    LET img == [seq |-> "idle", dir |-> "r", idx |-> 0]
    IN IF IndexRaises(img) THEN Raise("IndexError")
       ELSE [pos |-> [x |-> Px(40), y |-> Px(HEIGHT - 50)],
             vel |-> [x |-> Zero, y |-> Zero],
             acc |-> [x |-> Zero, y |-> Zero],
             rect |-> SetCenter(get_rect(img), 20, HEIGHT - 50),
             jumping |-> FALSE,
             running |-> FALSE,
             current_frame |-> 0,
             last_update |-> 0,
             image |-> img]

\* The Player whose construction stopped at line 160: the fields of lines
\* 147-155 are set; image, rect, pos, vel and acc were never assigned and
\* hold placeholders that no operation reads.
Player_unbuilt ==
    [pos |-> [x |-> Zero, y |-> Zero],
     vel |-> [x |-> Zero, y |-> Zero],
     acc |-> [x |-> Zero, y |-> Zero],
     rect |-> [x |-> 0, y |-> 0, w |-> 0, h |-> 0],
     jumping |-> FALSE,
     running |-> FALSE,
     current_frame |-> 0,
     last_update |-> 0,
     image |-> [seq |-> "none", dir |-> "r", idx |-> 0]]

-----------------------------------------------------------------------------
(* Player.animate *)

\* self.running = (self.vel.x != 0)
SetRunning(p) == [p EXCEPT !.running = (p.vel.x # Zero)]

\* the frame sequences' lengths (len(self.run_frames_l), len(self.standing_frames_r))
RunLen == Len(assets.run)

IdleLen == Len(assets.idle)

\* the saved bottom not restored
Reanchor_BottomLost(r, img) == get_rect(img)

\* self.rect = self.image.get_rect(); self.rect.bottom = bottom
Reanchor(r, img) == SetBottom(get_rect(img), Bottom(r))

\* the frame index taken without the wrap-around
NextFrame_NoWrap(cf, n) == cf + 1

\* (self.current_frame + 1) % len(frames)
NextFrame(cf, n) == (cf + 1) % n

\* the run block is entered (lines 326-327)
RunFires(p, t) == p.vel.x # Zero /\ t - p.last_update > PLAYER_RUN_FREQ

\* the idle block is entered (lines 342-343)
IdleFires(p, t) ==
    ~p.jumping /\ p.vel.x = Zero /\ t - p.last_update > PLAYER_IDLE_FREQ

\* the run image picked by lines 333-336
RunImage(p, cf) ==
    [seq |-> "run", dir |-> IF Positive(p.vel.x) THEN "r" ELSE "l", idx |-> cf]

\* the idle image picked by lines 349-352
IdleImage(p, cf) ==
    [seq |-> "idle", dir |-> IF Positive(p.pos.x) THEN "r" ELSE "l", idx |-> cf]

\* the empty run sequence tolerated
RunRaises_Never(p, t) == FALSE

\* the modulo of line 330 divides by zero: len(self.run_frames_l) = 0 in a
\* run block whose interval has elapsed
RunRaises(p, t) == RunFires(p, t) /\ RunLen = 0

\* the modulo of line 346 divides by zero
IdleRaises(p, t) == IdleFires(p, t) /\ IdleLen = 0

\* the exception animate() ends with, or "none"
AnimateError(p, t) ==
    IF RunRaises(p, t) \/ IdleRaises(p, t) THEN "ZeroDivisionError"
    ELSE IF /\ RunFires(p, t)
            /\ RunLen > 0
            /\ IndexRaises(RunImage(p, NextFrame(p.current_frame, RunLen)))
    THEN "IndexError"
    ELSE IF /\ IdleFires(p, t)
            /\ IdleLen > 0
            /\ IndexRaises(IdleImage(p, NextFrame(p.current_frame, IdleLen)))
    THEN "IndexError"
    ELSE "none"

\* The "show running animation" block.  With an empty run sequence it stops
\* at the modulo, after self.last_update = now; an index outside the list
\* stops it at the lookup, after self.current_frame is set.
AnimateRun(p, t) ==
    IF p.running /\ t - p.last_update > PLAYER_RUN_FREQ
    THEN IF RunLen = 0
         THEN [p EXCEPT !.last_update = t]
         ELSE LET cf == NextFrame(p.current_frame, RunLen)
                  img == RunImage(p, cf)
              IN IF IndexRaises(img)
                 THEN [p EXCEPT !.last_update = t, !.current_frame = cf]
                 ELSE [p EXCEPT !.last_update = t, !.current_frame = cf, !.image = img,
                                !.rect = Reanchor(p.rect, img)]
    ELSE p

\* the idle block without its airborne test
AnimateIdle_AirborneToo(p, t) ==
    IF ~p.running /\ t - p.last_update > PLAYER_IDLE_FREQ
    THEN LET cf == NextFrame(p.current_frame, IdleLen)
             img == IdleImage(p, cf)
         IN [p EXCEPT !.last_update = t, !.current_frame = cf, !.image = img,
                      !.rect = Reanchor(p.rect, img)]
    ELSE p

\* the "show idle animation" block, stopped by an exception as the run block
AnimateIdle(p, t) ==
    IF ~p.jumping /\ ~p.running /\ t - p.last_update > PLAYER_IDLE_FREQ
    THEN IF IdleLen = 0
         THEN [p EXCEPT !.last_update = t]
         ELSE LET cf == NextFrame(p.current_frame, IdleLen)
                  img == IdleImage(p, cf)
              IN IF IndexRaises(img)
                 THEN [p EXCEPT !.last_update = t, !.current_frame = cf]
                 ELSE [p EXCEPT !.last_update = t, !.current_frame = cf, !.image = img,
                                !.rect = Reanchor(p.rect, img)]
    ELSE p

\* animate(), with t the value of pygame.time.get_ticks()
Player_animate(p, t) == AnimateIdle(AnimateRun(SetRunning(p), t), t)

-----------------------------------------------------------------------------
(* Player.update *)

\* the right key tested first
InputTerm_RightFirst(left, right) ==
    IF right THEN PLAYER_ACC ELSE IF left THEN Neg(PLAYER_ACC) ELSE Zero

\* acceleration from the held keys: left is tested first, right only otherwise
InputTerm(left, right) ==
    IF left THEN Neg(PLAYER_ACC) ELSE IF right THEN PLAYER_ACC ELSE Zero

\* self.vel.x * s.PLAYER_FRICTION * -1
FrictionTerm(vx) == Neg(Times(vx, PLAYER_FRICTION))

\* the snap to zero left out
Deadzone_NoSnap(vx) == vx

\* if abs(self.vel.x) < 0.1: self.vel.x = 0
Deadzone(vx) == IF Less(Magnitude(vx), DEADZONE) THEN Zero ELSE vx

\* 0.5 * self.acc
Half(a) == [x |-> Times(HALF, a.x), y |-> Times(HALF, a.y)]

\* the half-acceleration term dropped
IntegratePos_NoHalfAcc(p0, v, a) == [x |-> Plus(p0.x, v.x), y |-> Plus(p0.y, v.y)]

\* self.pos += self.vel + 0.5 * self.acc
IntegratePos(p0, v, a) ==
    [x |-> Plus(p0.x, Plus(v.x, Half(a).x)), y |-> Plus(p0.y, Plus(v.y, Half(a).y))]

\* self.acc = vec(0, s.PLAYER_GRAV), then the input and the friction on acc.x
\* (lines 285-296)
Acceleration(p, left, right) ==
    [x |-> Plus(InputTerm(left, right), FrictionTerm(p.vel.x)), y |-> PLAYER_GRAV]

\* self.vel += self.acc, then the deadzone (lines 299-302)
Velocity(v0, a) == [x |-> Deadzone(Plus(v0.x, a.x)), y |-> Plus(v0.y, a.y)]

\* the Player with the acceleration a and the velocity v, moved by them
Moved(p, a, v) == [p EXCEPT !.acc = a, !.vel = v, !.pos = IntegratePos(p.pos, v, a)]

\* the Player accelerated by a
Accelerated(p, a) == Moved(p, a, Velocity(p.vel, a))

\* the acceleration accumulated onto the previous tick's
Integrate_Accumulating(p, left, right) ==
    Accelerated(p, [Acceleration(p, left, right) EXCEPT
                        !.x = Plus(p.acc.x, Acceleration(p, left, right).x)])

\* gravity, input, friction, velocity, deadzone and position (lines 284-305)
Integrate(p, left, right) == Accelerated(p, Acceleration(p, left, right))

\* if self.rect.left < 0
ClampFires(p) == p.rect.x < 0

\* the position reset to the offset itself
Clamp_ToOffset(p) ==
    IF ClampFires(p)
    THEN [p EXCEPT !.pos = [@ EXCEPT !.x = Px(CLAMP_OFFSET)]]
    ELSE p

\* self.pos.x = self.rect.left + 50
Clamp(p) ==
    IF ClampFires(p)
    THEN [p EXCEPT !.pos = [@ EXCEPT !.x = Px(p.rect.x + CLAMP_OFFSET)]]
    ELSE p

\* the rect's centre, not its bottom-centre, put at pos
Resync_Center(p) == [p EXCEPT !.rect = SetCenter(p.rect, ToPixel(p.pos.x), ToPixel(p.pos.y))]

\* self.rect.midbottom = self.pos
Resync(p) == [p EXCEPT !.rect = SetMidbottom(p.rect, p.pos)]

\* the physics run before the animation step
Player_update_PhysicsFirst(p, left, right, t) ==
    Resync(Clamp(Player_animate(Integrate(p, left, right), t)))

Player_update(p, left, right, t) ==
    Resync(Clamp(Integrate(Player_animate(p, t), left, right)))

\* rect.midbottom read back: it equals pos truncated to pixels
MidbottomSynced(p) ==
    /\ p.rect.x + (p.rect.w \div 2) = ToPixel(p.pos.x)
    /\ Bottom(p.rect) = ToPixel(p.pos.y)

-----------------------------------------------------------------------------
(* Player.jump and Player.jump_cut *)

\* self.rect.x += 2
ProbeRect(r) == [r EXCEPT !.x = r.x + PROBE_SHIFT]

\* the probe of the base collection dropped
ProbeHits_PlatformsOnly(r, plats, bs) == spritecollide(ProbeRect(r), plats)

\* the shift of the probe not undone
ProbeRestore_Missing(r) == r

\* self.rect.x -= 2
ProbeRestore(r) == [r EXCEPT !.x = r.x - PROBE_SHIFT]

\* hits = plat_hits or base_hits
ProbeHits(r, plats, bs) ==
    spritecollide(ProbeRect(r), plats) \/ spritecollide(ProbeRect(r), bs)

\* the airborne test dropped from the guard
JumpAllowed_NoAirborneTest(hits, j) == hits

\* if hits and not self.jumping
JumpAllowed(hits, j) == hits /\ ~j

Player_jump(p, plats, bs) ==
    LET q == [p EXCEPT !.rect = ProbeRestore(ProbeRect(p.rect))]
    IN IF JumpAllowed(ProbeHits(p.rect, plats, bs), p.jumping)
       THEN [q EXCEPT !.jumping = TRUE, !.vel = [@ EXCEPT !.y = Neg(PLAYER_JUMP_VEL)]]
       ELSE q

\* the threshold comparison reversed
JumpCutApplies_Reversed(p) ==
    p.jumping /\ Less(Neg(JUMP_THRESHOLD), p.vel.y)

\* if self.jumping: if self.vel.y < s.JUMP_THRESHOLD * -1
JumpCutApplies(p) == p.jumping /\ Less(p.vel.y, Neg(JUMP_THRESHOLD))

\* the cut also ending the jump
Player_jump_cut_EndsJump(p) ==
    IF JumpCutApplies(p)
    THEN [p EXCEPT !.jumping = FALSE, !.vel = [@ EXCEPT !.y = Neg(JUMP_THRESHOLD)]]
    ELSE p

Player_jump_cut(p) ==
    IF JumpCutApplies(p)
    THEN [p EXCEPT !.vel = [@ EXCEPT !.y = Neg(JUMP_THRESHOLD)]]
    ELSE p

-----------------------------------------------------------------------------
(* Landing: done by the game loop, outside the sprite classes.  A grounding  *)
(* collision is an overlap of the unshifted rect with terrain while the      *)
(* Player is not moving up; it clears jumping and stops the fall.            *)

Grounded(p, plats, bs) ==
    (spritecollide(p.rect, plats) \/ spritecollide(p.rect, bs)) /\ ~Negative(p.vel.y)

\* the landing stops the fall but leaves the flag set
LandEffect_FlagKept(p) == [p EXCEPT !.vel = [@ EXCEPT !.y = Zero]]

LandEffect(p) == [p EXCEPT !.jumping = FALSE, !.vel = [@ EXCEPT !.y = Zero]]

-----------------------------------------------------------------------------
(* Terrain.  Platform and Base are immutable after construction.  A        *)
(* terrain is the content of the groups game.platforms and game.bases and   *)
(* the set built of the terrain sprites constructed, which are members of  *)
(* all_sprites.                                                             *)

base_img == [w |-> 400, h |-> BASE_HEIGHT]

\* Base(game, x): rect at (x, HEIGHT - BASE_HEIGHT)
Base(x) == [x |-> x, y |-> HEIGHT - BASE_HEIGHT, w |-> base_img.w, h |-> base_img.h]

\* random.choice(images): the stone images are 380x94, the small ones
\* 200x100, both at scale 0.5
PlatformImages == {[w |-> 190, h |-> 47], [w |-> 100, h |-> 50]}

\* Platform(game, x, y) with the image img
Platform(x, y, img) == [x |-> x, y |-> y, w |-> img.w, h |-> img.h]

NoTerrain == [platforms |-> {}, bases |-> {}, built |-> {}]

\* What the constructors leave: a Platform joins all_sprites and platforms,
\* a Base joins all_sprites only.
Terrains ==
    { NoTerrain, [platforms |-> {}, bases |-> {}, built |-> {"base"}] }
    \cup { [platforms |-> {Platform(70, 500, img)}, bases |-> {}, built |-> {"platform"}] :
             img \in PlatformImages }

\* a Base that the game has added to game.bases
BaseJoined == [platforms |-> {}, bases |-> {Base(0)}, built |-> {"base"}]

\* Terrains of a running game, whose loop adds each Base to game.bases.
GameTerrains ==
    { BaseJoined,
      [platforms |-> {Platform(400, 300, [w |-> 100, h |-> 50])}, bases |-> {Base(400)},
       built |-> {"platform", "base"}],
      [platforms |-> {Platform(0, 545, [w |-> 190, h |-> 47])}, bases |-> {Base(0)},
       built |-> {"platform", "base"}] }

\* where a Platform is built during a session: (x, y) of its top-left corner
PlatformSpots == {<<0, 545>>, <<70, 500>>}

\* elapsed milliseconds between two reads of pygame.time.get_ticks()
Dts == {40, 110}

-----------------------------------------------------------------------------
(* Slime and Cloud.  A sprite is a record; its membership of the game's    *)
(* groups is held by the groups.  The field updates counts the update()    *)
(* calls the sprite has received.                                           *)

Sprites == {"slime", "cloud"}

NoSprite ==
    [kind |-> "none", rect |-> [x |-> 0, y |-> 0, w |-> 0, h |-> 0], vx |-> 0,
     current_frame |-> 0, last_update |-> 0, image |-> 0, updates |-> 0]

\* load_images: get_image(52, 125, 50, 28, scale=1.5), get_image(0, 125, 51, 26, scale=1.5)
walk_images == << [w |-> 75, h |-> 42], [w |-> 76, h |-> 39] >>

\* one image of game.cloud_images
cloud_img == [w |-> 40, h |-> 20]

\* random.randrange(1, 4)
SlimeSpeeds == 1 .. 3

\* the frame interval of Slime.animate
SLIME_FREQ == 180

\* Slime.__init__
Slime_new(vx) ==
    [kind |-> "slime",
     rect |-> [x |-> WIDTH, y |-> HEIGHT - BASE_HEIGHT + 5 - walk_images[1].h,
               w |-> walk_images[1].w, h |-> walk_images[1].h],
     vx |-> vx, current_frame |-> 0, last_update |-> 0, image |-> 0, updates |-> 0]

\* Cloud.__init__: the rect keeps the size of the unscaled image
Cloud_new(x, y) ==
    [kind |-> "cloud", rect |-> [x |-> x, y |-> y, w |-> cloud_img.w, h |-> cloud_img.h],
     vx |-> 0, current_frame |-> 0, last_update |-> 0, image |-> 0, updates |-> 0]

\* random.randrange(s.WIDTH, s.WIDTH + self.rect.width)
CloudXs == WIDTH .. WIDTH + cloud_img.w - 1

\* random.randrange(0, s.HEIGHT - 350)
CloudYs == 0 .. HEIGHT - 351

\* Slime.animate, with t the value of pygame.time.get_ticks()
Slime_animate(sp, t) ==
    IF t - sp.last_update > SLIME_FREQ
    THEN LET cf == (sp.current_frame + 1) % Len(walk_images)
         IN [sp EXCEPT !.last_update = t, !.current_frame = cf, !.image = cf]
    ELSE sp

\* the Slime moved only while it shows its first walk frame
Slime_move_OnFirstFrame(sp) ==
    IF sp.current_frame = 0 THEN [sp EXCEPT !.rect = [@ EXCEPT !.x = @ - sp.vx]] ELSE sp

\* self.rect.x -= self.vx
Slime_move(sp) == [sp EXCEPT !.rect = [@ EXCEPT !.x = @ - sp.vx]]

\* the left edge tested in place of the right edge
OffScreen_LeftEdge(r) == r.x < 0

\* if self.rect.right < 0
OffScreen(r) == Right(r) < 0

\* Sprite.kill(): the sprite leaves a group it is in
kill(group, e) == group \ {e}

\* the groups a sprite is a member of
GroupsOf(e) ==
    {g \in {"all_sprites", "enemies", "clouds"} :
        \/ g = "all_sprites" /\ e \in all_sprites
        \/ g = "enemies" /\ e \in enemies
        \/ g = "clouds" /\ e \in clouds}

\* the world scroll applied to the clouds by the game loop, per frame
ScrollStep == 15

-----------------------------------------------------------------------------
(* State machine. *)

NoOp(name) ==
    [name |-> name, left |-> FALSE, right |-> FALSE, hits |-> FALSE,
     pre |-> Player, anim |-> Player, integ |-> Player, clamped |-> FALSE,
     who |-> "player", was |-> {}]

SetPlayer(p) ==
    /\ pos' = p.pos
    /\ vel' = p.vel
    /\ acc' = p.acc
    /\ rect' = p.rect
    /\ jumping' = p.jumping
    /\ running' = p.running
    /\ current_frame' = p.current_frame
    /\ last_update' = p.last_update
    /\ image' = p.image

\* The state after Player(game) on the terrain t, with the frames a that
\* load_images() found and p the value of the constructor.  A constructor
\* that raised leaves the program stopped, the Player already a member of
\* all_sprites (line 143).
InitState(p, t, a) ==
    /\ assets = a
    /\ error = IF Raised(p) THEN p.raised ELSE "none"
    /\ \E q \in {IF Raised(p) THEN Player_unbuilt ELSE p} :
          /\ pos = q.pos
          /\ vel = q.vel
          /\ acc = q.acc
          /\ rect = q.rect
          /\ jumping = q.jumping
          /\ running = q.running
          /\ current_frame = q.current_frame
          /\ last_update = q.last_update
          /\ image = q.image
          /\ op = [name |-> "init", left |-> FALSE, right |-> FALSE, hits |-> FALSE,
                   pre |-> q, anim |-> q, integ |-> q,
                   clamped |-> FALSE, who |-> "player", was |-> {}]
    /\ now = 0
    /\ platforms = t.platforms
    /\ bases = t.bases
    /\ ticks = 0
    /\ jumps = 0
    /\ coast = 0
    /\ sprites = [e \in Sprites |-> NoSprite]
    /\ all_sprites = {"player"} \cup t.built
    /\ enemies = {}
    /\ clouds = {}

Init == \E t \in Terrains \cup GameTerrains : InitState(Player_init, t, DefaultAssets)

\* one tick: Player.update() with the held keys and the clock read by
\* animate().  An exception raised in animate() ends the call there: the
\* fields written before it keep their new values and the program stops.
update(left, right, t) ==
    /\ error = "none"
    /\ \E a \in {Player_animate(Player, t)} :
          IF AnimateError(Player, t) # "none"
          THEN /\ SetPlayer(a)
               /\ error' = AnimateError(Player, t)
               /\ op' = [name |-> "update_raised", left |-> left, right |-> right,
                         hits |-> FALSE, pre |-> Player, anim |-> a, integ |-> a,
                         clamped |-> FALSE, who |-> "player", was |-> {}]
          ELSE \E i \in {Integrate(a, left, right)} :
               /\ SetPlayer(Player_update(Player, left, right, t))
               /\ error' = error
               /\ op' = [name |-> "update", left |-> left, right |-> right,
                         hits |-> FALSE, pre |-> Player, anim |-> a, integ |-> i,
                         clamped |-> ClampFires(i), who |-> "player", was |-> {}]
    /\ now' = t
    /\ ticks' = ticks + 1
    /\ coast' = IF left \/ right THEN 0 ELSE coast + 1
    /\ UNCHANGED <<platforms, bases, jumps, assets>>
    /\ UNCHANGED evars

jump ==
    /\ error = "none"
    /\ SetPlayer(Player_jump(Player, platforms, bases))
    /\ op' = [NoOp("jump") EXCEPT !.hits = ProbeHits(rect, platforms, bases)]
    /\ jumps' = IF jumping' /\ ~jumping THEN jumps + 1 ELSE jumps
    /\ UNCHANGED <<now, platforms, bases, ticks, coast, assets, error>>
    /\ UNCHANGED evars

jump_cut ==
    /\ error = "none"
    /\ SetPlayer(Player_jump_cut(Player))
    /\ op' = NoOp("jump_cut")
    /\ UNCHANGED <<now, platforms, bases, ticks, jumps, coast, assets, error>>
    /\ UNCHANGED evars

land ==
    /\ error = "none"
    /\ Grounded(Player, platforms, bases)
    /\ SetPlayer(LandEffect(Player))
    /\ op' = NoOp("land")
    /\ UNCHANGED <<now, platforms, bases, ticks, jumps, coast, assets, error>>
    /\ UNCHANGED evars

\* Platform(game, x, y), with img the image random.choice picked: the new
\* sprite joins all_sprites and platforms.  all_sprites holds one name for
\* the Platforms and one for the Bases.
Platform_init(x, y, img) ==
    /\ error = "none"
    /\ Cardinality(platforms) < MaxPlatforms
    /\ platforms' = platforms \cup {Platform(x, y, img)}
    /\ all_sprites' = all_sprites \cup {"platform"}
    /\ op' = NoOp("Platform_init")
    /\ UNCHANGED <<pvars, now, bases, ticks, jumps, coast, sprites, enemies, clouds>>

\* Base(game, x): the new sprite joins all_sprites only; a second Base
\* changes no group of the model
Base_init(x) ==
    /\ error = "none"
    /\ "base" \notin all_sprites
    /\ all_sprites' = all_sprites \cup {"base"}
    /\ op' = NoOp("Base_init")
    /\ UNCHANGED <<pvars, now, platforms, bases, ticks, jumps, coast, sprites, enemies,
                   clouds>>

Tick ==
    /\ ticks < MaxTicks
    /\ \E left \in BOOLEAN, right \in BOOLEAN, dt \in Dts : update(left, right, now + dt)

Next == Tick \/ jump \/ jump_cut \/ land

Spec == Init /\ [][Next]_vars

\* the frame interval of the walking and falling runs
FrameMs == 40

\* Jumping and landing with no key held, over more ticks.
TickFalling ==
    /\ ticks < MaxJumpTicks
    /\ update(FALSE, FALSE, now + FrameMs)

NextJump == TickFalling \/ jump \/ jump_cut \/ land

SpecJump == Init /\ [][NextJump]_vars

\* A session with no terrain near the Player.
InitBare == InitState(Player_init, NoTerrain, DefaultAssets)

\* Walking only, over more ticks.
TickWalk ==
    /\ ticks < MaxWalkTicks
    /\ \E left \in BOOLEAN, right \in BOOLEAN : update(left, right, now + FrameMs)

SpecWalk == InitBare /\ [][TickWalk]_vars

\* A key held for some ticks, then released for good.
Released == op.name = "update" /\ ~op.left /\ ~op.right

TickHold ==
    /\ coast = 0
    /\ ticks < MaxHoldTicks
    /\ \E left \in BOOLEAN : update(left, ~left, now + FrameMs)

TickCoast ==
    /\ coast < MaxCoastTicks
    /\ update(FALSE, FALSE, now + FrameMs)

NextFriction == TickHold \/ TickCoast

SpecFriction == InitBare /\ [][NextFriction]_vars

\* The physics step applied to a Player already in motion: the velocity and
\* the acceleration left by the tick before are drawn from small sets.
StartVels == {Px(-5), Ratio(-1, 2), Zero, Px(5)}

StartAccs == {[x |-> Zero, y |-> Zero],
              [x |-> PLAYER_ACC, y |-> PLAYER_GRAV],
              [x |-> Neg(PLAYER_ACC), y |-> PLAYER_GRAV]}

InitPhysics ==
    \E vx \in StartVels, a \in StartAccs :
        InitState([Player_init EXCEPT !.vel = [@ EXCEPT !.x = vx], !.acc = a],
                  NoTerrain, DefaultAssets)

TickPhysics ==
    /\ ticks < MaxPhysTicks
    /\ \E left \in BOOLEAN, right \in BOOLEAN : update(left, right, now + FrameMs)

SpecPhysics == InitPhysics /\ [][TickPhysics]_vars

\* A Player standing on a base, with the frames of any of the image
\* directories.
InitAssets ==
    \E a \in AssetSets :
        InitState(Player_init, BaseJoined, a)

TickAssets ==
    /\ ticks < MaxAssetTicks
    /\ \E left \in BOOLEAN, right \in BOOLEAN, dt \in Dts : update(left, right, now + dt)

NextAssets == TickAssets \/ jump

SpecAssets == InitAssets /\ [][NextAssets]_vars

\* Slime(game): joins all_sprites and enemies
Slime_init(vx) ==
    /\ sprites["slime"].kind = "none"
    /\ sprites' = [sprites EXCEPT !["slime"] = Slime_new(vx)]
    /\ all_sprites' = all_sprites \cup {"slime"}
    /\ enemies' = enemies \cup {"slime"}
    /\ op' = [NoOp("Slime_init") EXCEPT !.who = "slime", !.was = GroupsOf("slime")]
    /\ UNCHANGED <<pvars, now, platforms, bases, ticks, jumps, coast, clouds>>

\* Cloud(game): joins all_sprites and clouds
Cloud_init(x, y) ==
    /\ sprites["cloud"].kind = "none"
    /\ sprites' = [sprites EXCEPT !["cloud"] = Cloud_new(x, y)]
    /\ all_sprites' = all_sprites \cup {"cloud"}
    /\ clouds' = clouds \cup {"cloud"}
    /\ op' = [NoOp("Cloud_init") EXCEPT !.who = "cloud", !.was = GroupsOf("cloud")]
    /\ UNCHANGED <<pvars, now, platforms, bases, ticks, jumps, coast, enemies>>

\* Slime.update(), called by all_sprites.update() on a member
Slime_update(t) ==
    LET sp == Slime_move(Slime_animate(sprites["slime"], t))
        dead == OffScreen(sp.rect)
    IN /\ "slime" \in all_sprites
       /\ sprites' = [sprites EXCEPT !["slime"] = [sp EXCEPT !.updates = @ + 1]]
       /\ all_sprites' = IF dead THEN kill(all_sprites, "slime") ELSE all_sprites
       /\ enemies' = IF dead THEN kill(enemies, "slime") ELSE enemies
       /\ clouds' = IF dead THEN kill(clouds, "slime") ELSE clouds
       /\ now' = t
       /\ op' = [NoOp("Slime_update") EXCEPT !.who = "slime", !.was = GroupsOf("slime")]
       /\ UNCHANGED <<pvars, platforms, bases, ticks, jumps, coast>>

\* Cloud.update(), called by all_sprites.update() on a member
Cloud_update ==
    LET dead == OffScreen(sprites["cloud"].rect)
    IN /\ "cloud" \in all_sprites
       /\ all_sprites' = IF dead THEN kill(all_sprites, "cloud") ELSE all_sprites
       /\ enemies' = IF dead THEN kill(enemies, "cloud") ELSE enemies
       /\ clouds' = IF dead THEN kill(clouds, "cloud") ELSE clouds
       /\ op' = [NoOp("Cloud_update") EXCEPT !.who = "cloud", !.was = GroupsOf("cloud")]
       /\ UNCHANGED <<pvars, now, platforms, bases, ticks, jumps, coast, sprites>>

\* one frame of world scroll: every live cloud still on screen moves left
scroll ==
    /\ "cloud" \in clouds
    /\ ~OffScreen(sprites["cloud"].rect)
    /\ sprites' = [sprites EXCEPT !["cloud"] =
                      [@ EXCEPT !.rect = [@ EXCEPT !.x = @ - ScrollStep]]]
    /\ op' = [NoOp("scroll") EXCEPT !.who = "cloud", !.was = GroupsOf("cloud")]
    /\ UNCHANGED <<pvars, now, platforms, bases, ticks, jumps, coast,
                   all_sprites, enemies, clouds>>

SpawnSlime == \E vx \in SlimeSpeeds : Slime_init(vx)

SpawnCloud ==
    /\ sprites["cloud"].kind = "none"
    /\ \E x \in CloudXs, y \in CloudYs : Cloud_init(x, y)

TickSlime == Slime_update(now + FrameMs)

\* A session in which the terrain is built while the Player moves: it starts
\* with no terrain, and a Platform or a Base may be constructed at any time.
BuildPlatform ==
    \E spot \in PlatformSpots, img \in PlatformImages : Platform_init(spot[1], spot[2], img)

BuildBase == Base_init(0)

TickBuild ==
    /\ ticks < MaxBuildTicks
    /\ \E left \in BOOLEAN, right \in BOOLEAN : update(left, right, now + FrameMs)

NextBuild == TickBuild \/ jump \/ land \/ BuildPlatform \/ BuildBase

SpecBuild == InitBare /\ [][NextBuild]_vars

\* A session with a Slime, or one with a Cloud: the two never read or write
\* each other's fields.
NextEntities ==
    \/ sprites["cloud"].kind = "none" /\ (SpawnSlime \/ TickSlime)
    \/ sprites["slime"].kind = "none" /\ (SpawnCloud \/ Cloud_update \/ scroll)

SpecEntities == InitBare /\ [][NextEntities]_vars

-----------------------------------------------------------------------------
(* Properties of Player.jump and Player.jump_cut, checked under Spec.       *)

Terrain == platforms \cup bases

\* C3: a jump() call made while airborne (jumping = TRUE before the call)
\* leaves every Player field (jumping, vel, pos, rect and the rest) as it
\* was, whether or not the shifted probe overlaps terrain.
C3_JumpAirborneNoOp ==
    (op.name = "jump" /\ op.pre.jumping) => Player = op.pre

C3_Witness ==
    /\ op.name = "jump"
    /\ op.pre.jumping
    /\ \E t \in Terrain : colliderect(ProbeRect(op.pre.rect), t)
    /\ op.pre.vel.y # Neg(PLAYER_JUMP_VEL)

\* C4: a jump() call made while grounded sets vel.y = -PLAYER_JUMP_VEL and
\* jumping = TRUE exactly when the rect shifted by the probe overlaps a
\* member of platforms or of bases; with no overlap (empty groups included)
\* vel.y and jumping keep their values.
C4_JumpGroundedIffProbe ==
    (op.name = "jump" /\ ~op.pre.jumping) =>
        IF \E t \in Terrain : colliderect(ProbeRect(op.pre.rect), t)
        THEN jumping /\ vel.y = Neg(PLAYER_JUMP_VEL)
        ELSE ~jumping /\ vel.y = op.pre.vel.y

\* grounded, and only the shifted rect overlaps a base or platform
C4_Witness ==
    /\ op.name = "jump"
    /\ ~op.pre.jumping
    /\ jumping
    /\ vel.y = Neg(PLAYER_JUMP_VEL)
    /\ ~\E t \in Terrain : colliderect(op.pre.rect, t)
    /\ \E t \in Terrain : colliderect(ProbeRect(op.pre.rect), t)

\* C6: jump_cut() changes vel.y only when jumping and vel.y < -JUMP_THRESHOLD,
\* and then to exactly -JUMP_THRESHOLD (never a larger upward speed); in
\* every other case vel.y is unchanged; jumping, vel.x and pos never change.
C6_JumpCutClamp ==
    op.name = "jump_cut" =>
        /\ vel.y = IF op.pre.jumping /\ Less(op.pre.vel.y, Neg(JUMP_THRESHOLD))
                   THEN Neg(JUMP_THRESHOLD) ELSE op.pre.vel.y
        /\ (Negative(op.pre.vel.y) =>
               ~Less(Magnitude(op.pre.vel.y), Magnitude(vel.y)))
        /\ jumping = op.pre.jumping
        /\ vel.x = op.pre.vel.x
        /\ pos = op.pre.pos

C6_Witness ==
    /\ op.name = "jump_cut"
    /\ op.pre.jumping
    /\ Less(op.pre.vel.y, Neg(JUMP_THRESHOLD))
    /\ vel.y = Neg(JUMP_THRESHOLD)

-----------------------------------------------------------------------------
(* Properties of Player.animate and of the integration step, under Spec.    *)

\* C8: when the animation step of a tick changes the frame index (run or
\* idle branch), the rect's bottom after the step equals its bottom before.
C8_AnimateKeepsBottom ==
    (op.name = "update" /\ op.anim.current_frame # op.pre.current_frame) =>
        Bottom(op.anim.rect) = Bottom(op.pre.rect)

\* a frame change between images of different heights
C8_Witness ==
    /\ op.name = "update"
    /\ op.anim.current_frame # op.pre.current_frame
    /\ op.anim.rect.h # op.pre.rect.h
    /\ op.anim.image.seq = "run"

\* C10: the integration step of every tick yields
\* pos = pos_old + (vel_new + 0.5 * acc), each sum rounded to a double, with
\* vel_new the velocity already updated in this tick (vel_old.y + acc.y for
\* y); from vel = (0,0) with no key held one tick gives vel.y = 0.8 and moves
\* pos.y down by 0.8 + 0.4, from H - 50 to H - 49.2, with or without a
\* platform under the Player.
C10_PositionIntegration ==
    op.name = "update" =>
        /\ acc.y = PLAYER_GRAV
        /\ vel.y = Plus(op.pre.vel.y, acc.y)
        /\ op.integ.vel = vel
        /\ op.integ.pos.x = Plus(op.pre.pos.x, Plus(vel.x, Times(HALF, acc.x)))
        /\ op.integ.pos.y = Plus(op.pre.pos.y, Plus(vel.y, Times(HALF, acc.y)))
        /\ pos.y = op.integ.pos.y
        /\ ((op.pre.vel = [x |-> Zero, y |-> Zero] /\ ~op.left /\ ~op.right) =>
               /\ vel.y = Ratio(8, 10)
               /\ pos.y = Plus(op.pre.pos.y, Plus(Ratio(8, 10), Ratio(4, 10)))
               /\ (op.pre.pos.y = Px(HEIGHT - 50) =>
                      pos.y = Ratio((HEIGHT - 50) * 10 + 12, 10)))

\* the scenario of the claim, with a platform overlapping the Player
C10_Witness ==
    /\ op.name = "update"
    /\ op.pre.vel = [x |-> Zero, y |-> Zero]
    /\ op.pre.pos.y = Px(HEIGHT - 50)
    /\ ~op.left /\ ~op.right
    /\ pos.y = Ratio((HEIGHT - 50) * 10 + 12, 10)
    /\ spritecollide(rect, platforms)

-----------------------------------------------------------------------------
(* The left wall, checked under SpecWalk.                                   *)

\* C1: at the end of every update tick, under any left/right input,
\* rect.left is not negative.
C1_LeftNeverNegative == op.name = "update" => rect.x >= 0

\* C2 as stated: in a tick in which the clamp resets pos.x, the tick ends
\* with rect.left = 50.
C2_ClampLeftIs50 == (op.name = "update" /\ op.clamped) => rect.x = CLAMP_OFFSET

\* C2 as amended: the clamp fires exactly when the rect it tests (the rect of
\* the previous tick, or the one the animation step of this tick made) has
\* left < 0; pos.x is then reset to that left edge + 50, so the tick ends with
\* the rect's centre x, not its left edge, at old left + 50, and with
\* rect.left = old left + 50 - width // 2, which is less than 50.
C2_ClampResetsToLeftPlus50 ==
    op.name = "update" =>
        /\ op.clamped <=> op.anim.rect.x < 0
        /\ op.clamped =>
              /\ pos.x = Px(op.anim.rect.x + CLAMP_OFFSET)
              /\ rect.x + (rect.w \div 2) = op.anim.rect.x + CLAMP_OFFSET
              /\ rect.x < CLAMP_OFFSET
        /\ ~op.clamped => pos.x = op.integ.pos.x

\* the Player has walked left into the wall and the clamp fires
C2_Witness ==
    /\ op.name = "update"
    /\ op.clamped
    /\ Negative(op.pre.vel.x)
    /\ op.left
    /\ ticks > 1

-----------------------------------------------------------------------------
(* Landing, checked under SpecJump.                                         *)

\* C5: once a grounding collision is detected outside the jump probe (land),
\* jumping is FALSE again, so a jump() made then with terrain under the probe
\* succeeds.
C5_LandingClearsJumping ==
    op.name = "land" =>
        /\ ~jumping
        /\ ProbeHits(rect, platforms, bases) =>
              Player_jump(Player, platforms, bases).vel.y = Neg(PLAYER_JUMP_VEL)

\* a second jump has succeeded, after the landing that followed the first
C5_Witness == op.name = "jump" /\ jumps = 2 /\ jumping /\ ~op.pre.jumping

-----------------------------------------------------------------------------
(* Friction, checked under SpecFriction.                                    *)

\* C7: with no key held, every tick lowers the speed |vel.x| of a moving
\* Player, CoastBound such ticks in a row bring vel.x to exactly 0, and a
\* vel.x of 0 stays 0 on every later tick without input.
C7_FrictionConverges ==
    /\ coast >= CoastBound => vel.x = Zero
    /\ (Released /\ op.pre.vel.x = Zero) => vel.x = Zero
    /\ (Released /\ op.pre.vel.x # Zero) =>
           Less(Magnitude(vel.x), Magnitude(op.pre.vel.x))

\* coasting has stopped a Player that was moving, by the snap to zero
C7_Witness ==
    /\ Released
    /\ op.pre.vel.x # Zero
    /\ vel.x = Zero
    /\ coast > 10
    /\ ticks > MaxHoldTicks

-----------------------------------------------------------------------------
(* Despawn, checked under SpecEntities.                                     *)

\* C9: after an update of the Slime or the Cloud, a sprite with
\* rect.right < 0 is in none of the groups (it has left all_sprites and
\* enemies/clouds in that one step), and a sprite with rect.right >= 0 is in
\* exactly the groups it was in before its update.
C9_OffScreenDespawn ==
    op.name \in {"Slime_update", "Cloud_update"} =>
        /\ Right(sprites[op.who].rect) < 0 => GroupsOf(op.who) = {}
        /\ Right(sprites[op.who].rect) >= 0 => GroupsOf(op.who) = op.was

\* the Slime has walked off the left edge and left both of its groups
C9_Witness ==
    /\ op.name = "Slime_update"
    /\ Right(sprites["slime"].rect) < 0
    /\ op.was = {"all_sprites", "enemies"}
    /\ GroupsOf("slime") = {}

-----------------------------------------------------------------------------
(* Properties of the physics step of Player.update.                         *)

\* C11: each update() recomputes the acceleration from scratch, whatever the
\* acceleration left by the tick before: acc.y is the gravity, acc.x is the
\* input term (-PLAYER_ACC, 0 or PLAYER_ACC) minus friction times the old
\* vel.x, and vel.x is the old vel.x plus acc.x, snapped to 0 inside the
\* deadzone.  With vel.x = 5, friction 0.12 and no key held, acc.x = -0.6
\* and vel.x = 4.4 after the tick.
C11_AccelerationRecomputed ==
    op.name = "update" =>
        LET friction == Times(op.pre.vel.x, PLAYER_FRICTION)
            raw == Plus(op.pre.vel.x, acc.x)
        IN /\ acc.y = PLAYER_GRAV
           /\ acc.x \in {Plus(input, Neg(friction)) :
                             input \in {Neg(PLAYER_ACC), Zero, PLAYER_ACC}}
           /\ (~op.left /\ ~op.right) => acc.x = Neg(friction)
           /\ vel.x = IF Less(Magnitude(raw), DEADZONE) THEN Zero ELSE raw
           /\ (op.pre.vel.x = Px(5) /\ ~op.left /\ ~op.right) =>
                  /\ acc.x = Ratio(-6, 10)
                  /\ vel.x = Ratio(44, 10)

\* the scenario, after a tick that left a non-zero acceleration
C11_Witness ==
    /\ op.name = "update"
    /\ op.pre.vel.x = Px(5)
    /\ op.pre.acc.x # Zero
    /\ ~op.left /\ ~op.right
    /\ acc.x = Ratio(-6, 10)
    /\ vel.x = Ratio(44, 10)

\* C12: the input term of a tick's acc.x (acc.x with the friction term taken
\* out) is -PLAYER_ACC when left is held, PLAYER_ACC when right is held and
\* left is not, and 0 when neither is held; with both held the right key is
\* ignored and the term is -PLAYER_ACC.
C12_InputTermLeftFirst ==
    op.name = "update" =>
        LET friction == Neg(Times(op.pre.vel.x, PLAYER_FRICTION))
        IN /\ op.left => acc.x = Plus(Neg(PLAYER_ACC), friction)
           /\ (op.right /\ ~op.left) => acc.x = Plus(PLAYER_ACC, friction)
           /\ (~op.right /\ ~op.left) => acc.x = Plus(Zero, friction)

\* both keys held: the Player is pushed to the left
C12_Witness ==
    /\ op.name = "update"
    /\ op.left /\ op.right
    /\ acc.x = Neg(PLAYER_ACC)
    /\ Negative(vel.x)

\* C13: at the end of every update(), the ticks in which the clamp fired or
\* animate() replaced the rect included, the rect's bottom-centre is pos
\* truncated to pixels; jump() and jump_cut() keep the equality when it held
\* before the call.
C13_RectFollowsPos ==
    /\ op.name = "update" => MidbottomSynced(Player)
    /\ (op.name \in {"jump", "jump_cut"} /\ MidbottomSynced(op.pre)) =>
           MidbottomSynced(Player)

\* a tick of an airborne Player (a jump was made between two ticks) in which
\* animate() replaced the rect, leaving its left edge at 0 before the resync
C13_Witness ==
    /\ op.name = "update"
    /\ jumping
    /\ op.anim.rect # op.pre.rect
    /\ op.anim.rect.x = 0
    /\ MidbottomSynced(Player)

-----------------------------------------------------------------------------
(* Frame properties of Player.jump; C14 is checked under SpecBuild, where   *)
(* terrain is built during the session.                                     *)

\* C14: the probe of jump() is non-destructive: on every path, whether the
\* jump is activated or not, the rect after the call is the rect before it
\* (the 2-pixel shift is undone), and the platforms and the bases keep their
\* members and their rects.
C14_ProbeNonDestructive ==
    [][op'.name = "jump" =>
          /\ rect' = rect
          /\ platforms' = platforms
          /\ bases' = bases]_vars

\* a jump that took off from terrain found by the shifted probe only
C14_Witness ==
    /\ op.name = "jump"
    /\ op.hits
    /\ jumping /\ ~op.pre.jumping
    /\ ~\E t \in Terrain : colliderect(rect, t)
    /\ rect = op.pre.rect

\* C20: of the Player's methods only jump() writes jumping: update(), its
\* animation step included, and jump_cut() leave it as it was, in every
\* state, for any keys and any overlap with terrain.
C20_OnlyJumpWritesJumping ==
    op.name \in {"update", "update_raised", "jump_cut"} => jumping = op.pre.jumping

\* a tick of a Player that has come down into the terrain: still jumping
C20_Witness ==
    /\ op.name = "update"
    /\ op.pre.jumping
    /\ Negative(op.pre.vel.y)
    /\ ~Negative(vel.y)
    /\ \E t \in Terrain : colliderect(rect, t)
    /\ jumping

-----------------------------------------------------------------------------
(* Properties of Player.animate.                                            *)

\* C15 as stated: an animation step that would advance the frame index over
\* an empty run sequence fails with a ConfigurationError and selects no
\* frame.
C15_FailsWithConfigurationError ==
    (/\ op.name \in {"update", "update_raised"}
     /\ op.pre.vel.x # Zero
     /\ now - op.pre.last_update > PLAYER_RUN_FREQ
     /\ Len(assets.run) = 0) =>
        /\ error = "ConfigurationError"
        /\ image = op.pre.image
        /\ current_frame = op.pre.current_frame

\* C15: an animation step that would advance the frame index over an empty
\* run sequence fails with a ZeroDivisionError and selects no frame: image,
\* frame index and rect keep their values and the physics of the tick is
\* not run.  No other animation step raises: with an empty idle sequence
\* the constructor has failed with an IndexError and no step is made.
C15_FailsWithZeroDivisionError ==
    LET overEmpty == /\ op.name \in {"update", "update_raised"}
                     /\ op.pre.vel.x # Zero
                     /\ now - op.pre.last_update > PLAYER_RUN_FREQ
                     /\ Len(assets.run) = 0
    IN /\ overEmpty =>
             /\ error = "ZeroDivisionError"
             /\ image = op.pre.image
             /\ current_frame = op.pre.current_frame
             /\ rect = op.pre.rect
             /\ pos = op.pre.pos /\ vel = op.pre.vel
       /\ op.name \in {"update", "update_raised"} => (error # "none" => overEmpty)
       /\ Len(assets.idle) = 0 => (op.name = "init" /\ error = "IndexError")
       /\ error \in {"none", "ZeroDivisionError", "IndexError"}

\* the run block reached with no run frame loaded: the call stopped after
\* it had set last_update
C15_Witness ==
    /\ op.name \in {"update", "update_raised"}
    /\ op.pre.vel.x # Zero
    /\ now - op.pre.last_update > PLAYER_RUN_FREQ
    /\ Len(assets.run) = 0
    /\ error = "ZeroDivisionError"
    /\ running
    /\ last_update = now

\* C16: one animate() advances the frame index at most once: by the run
\* block only if vel.x # 0 and more than PLAYER_RUN_FREQ has passed since the
\* last frame change, by the idle block only if vel.x = 0, the Player is not
\* airborne and more than PLAYER_IDLE_FREQ has passed; never by both, and
\* when neither block fires the frame index, the timestamp and the image
\* are unchanged.
C16_OneFrameStepPerAnimate ==
    op.name = "update" =>
        LET elapsed == now - op.pre.last_update
            runFires == op.pre.vel.x # Zero /\ elapsed > PLAYER_RUN_FREQ
            idleFires == /\ op.pre.vel.x = Zero
                         /\ ~op.pre.jumping
                         /\ elapsed > PLAYER_IDLE_FREQ
        IN /\ runFires =>
                 /\ current_frame = (op.pre.current_frame + 1) % Len(assets.run)
                 /\ image.seq = "run"
                 /\ last_update = now
           /\ idleFires =>
                 /\ current_frame = (op.pre.current_frame + 1) % Len(assets.idle)
                 /\ image.seq = "idle"
                 /\ last_update = now
           /\ (~runFires /\ ~idleFires) =>
                 /\ current_frame = op.pre.current_frame
                 /\ last_update = op.pre.last_update
                 /\ image = op.pre.image

\* an airborne Player at rest horizontally, the idle interval gone by: no
\* block fires
C16_Witness ==
    /\ op.name = "update"
    /\ op.pre.jumping
    /\ op.pre.vel.x = Zero
    /\ now - op.pre.last_update > PLAYER_IDLE_FREQ
    /\ current_frame = op.pre.current_frame
    /\ last_update = op.pre.last_update

\* C18: in each update() the animation step runs before the physics: at the
\* end of the tick running is (vel.x # 0) for the vel.x the tick started
\* with, and a run frame selected in the tick faces the way that old vel.x
\* points, whatever vel.x the tick's integration produced.
C18_AnimationBeforePhysics ==
    op.name = "update" =>
        /\ running = (op.pre.vel.x # Zero)
        /\ (image.seq = "run" /\ last_update = now) =>
               image.dir = IF Positive(op.pre.vel.x) THEN "r" ELSE "l"

\* a tick that set a Player at rest in motion: running is still FALSE
C18_Witness ==
    /\ op.name = "update"
    /\ op.pre.vel.x = Zero
    /\ vel.x # Zero
    /\ ~running

\* C19: the one frame index shared by the run and the idle block is a valid
\* index of the sequence it selects from: the image held was taken at an
\* index idx with 0 <= idx < length of its sequence, a frame selected in a
\* tick was taken at current_frame, and no lookup raises IndexError, for any
\* order of run and idle steps and for run and idle sequences of different
\* non-zero lengths.
C19_FrameIndexValid ==
    /\ image.seq = "run" => image.idx \in 0 .. Len(assets.run) - 1
    /\ image.seq = "idle" => image.idx \in 0 .. Len(assets.idle) - 1
    /\ (op.name = "update" /\ last_update = now) => image.idx = current_frame
    /\ (Len(assets.run) > 0 /\ Len(assets.idle) > 0) => error # "IndexError"

\* a run frame selected right after the idle block had taken the index
\* past the end of the shorter run sequence
C19_Witness ==
    /\ op.name = "update"
    /\ last_update = now
    /\ image.seq = "run"
    /\ op.pre.image.seq = "idle"
    /\ op.pre.current_frame >= Len(assets.run)
    /\ current_frame < Len(assets.run)

-----------------------------------------------------------------------------
(* Properties of the Slime.                                                 *)

\* C17: every Slime.update() moves the Slime left by its own speed, an
\* integer of 1..3 fixed at spawn, whatever the animation timer does: after
\* n updates its left edge is at WIDTH - n * vx.  So the Slime, spawned with
\* its left edge at WIDTH, is a member of the groups exactly until its right
\* edge is left of 0, and has left every group after
\* (WIDTH + width) \div vx + 1 updates, after which it is updated no more.
C17_SlimeWalksOffScreen ==
    LET sl == sprites["slime"]
        last == (WIDTH + sl.rect.w) \div sl.vx
    IN sl.kind = "slime" =>
          /\ sl.vx \in 1 .. 3
          /\ sl.rect.x = WIDTH - sl.updates * sl.vx
          /\ sl.updates <= last + 1
          /\ ("slime" \in all_sprites \cup enemies \cup clouds) <=> sl.updates <= last

\* the slowest Slime, gone after its last update, its walk frame changed on
\* the way
C17_Witness ==
    /\ sprites["slime"].kind = "slime"
    /\ sprites["slime"].vx = 1
    /\ sprites["slime"].updates = WIDTH + sprites["slime"].rect.w + 1
    /\ sprites["slime"].last_update > 0
    /\ "slime" \notin all_sprites \cup enemies \cup clouds

====
